---- MODULE Spec2Model ----
(***************************************************************************)
(* Model of measure_pressure.py: the OPC UA pressure logger.               *)
(*                                                                         *)
(* The driver (__main__) connects once, then loops read -> log -> sleep    *)
(* until an exception leaves the loop, and disconnects in its finally      *)
(* clause.  The log file is a sequence of the strings written to it, the   *)
(* console a sequence of the strings printed.  Strings are built the way   *)
(* the f-strings and strftime build them, character by character.          *)
(***************************************************************************)
EXTENDS Integers, Sequences, FiniteSets, TLC

VARIABLES
    pc,          \* position of the driver: start, loop, reading, log, logging, sleep, finally, done
    client,      \* the session handle: "None", "open" (connected), "closed" (disconnect was called)
    pressure,    \* the driver's variable pressure: None or a float
    timestamp,   \* the driver's variable timestamp (a string)
    fileExists,  \* whether LOG_FILE exists
    file,        \* the contents of LOG_FILE: the lines in it, each with its terminator
    console,     \* everything printed to stdout, in order
    now,         \* the wall clock read by datetime.now()
    exc,         \* the exception in flight or last raised out of the loop
    raisedAt,    \* the position at which that exception was raised
    exit,        \* how the process ended: running, exit, clean, uncaught
    file0,       \* the contents of LOG_FILE before the run
    fileExists0, \* whether LOG_FILE existed before the run
    nConnect,    \* calls of client.connect
    nReads,      \* calls of read_pressure
    nReadOk,     \* calls of read_pressure that returned a value
    nLogCalls,   \* calls of log_data
    nAppends,    \* calls of log_data that wrote their line
    nSleeps,     \* completed calls of time.sleep
    nDisconnect, \* calls of client.disconnect
    logsInTick,  \* calls of log_data since the last read was issued
    sleepsSince, \* completed sleeps since the last read was issued
    failStreak,  \* consecutive failed reads up to now (saturating at MaxTicks)
    streakLogged,\* the longest streak of failed reads that a logged read has followed
    dropped,     \* the log entries log_data failed to write
    lastEntry,   \* the (clock, value) of the last line log_data wrote, or None
    bpc,         \* browse_nodes: position
    tree,        \* browse_nodes: the children of the objects node, each with its children
    failAt,      \* browse_nodes: the index of the client call that raises (0: none does)
    calls,       \* browse_nodes: client calls made so far
    oi,          \* browse_nodes: index of the current obj
    ci,          \* browse_nodes: index of the current child of obj
    bout         \* browse_nodes: the lines it printed

dvars == <<pc, client, pressure, timestamp, fileExists, file, console, now, exc,
           raisedAt, exit, file0, fileExists0, nConnect, nReads, nReadOk, nLogCalls,
           nAppends, nSleeps, nDisconnect, logsInTick, sleepsSince, failStreak,
           streakLogged, dropped, lastEntry>>
bvars == <<bpc, tree, failAt, calls, oi, ci, bout>>
vars == <<dvars, bvars>>

-----------------------------------------------------------------------------
(* Bounds *)

\* the driver issues at most MaxTicks reads
MaxTicks == 3
\* the objects node has at most MaxChildren children, each at most MaxChildren
MaxChildren == 2

-----------------------------------------------------------------------------
(* Configuration, lines 118-121 *)

SERVER_URL == "opc.tcp://10.0.5.76:4840"
PRESSURE_NODE_ID == "ns=1;s=G1_pressure"
LOG_FILE == "pressure_log.txt"
LOG_INTERVAL == 10

\* Python values that may be None: <<>> is None, <<v>> is the value v
NoneVal == <<>>
Some(v) == <<v>>

-----------------------------------------------------------------------------
(* Text conversion *)

Digit == <<"0", "1", "2", "3", "4", "5", "6", "7", "8", "9">>

DigitChar(d) == Digit[d + 1]

RECURSIVE NatStr(_)
NatStr(n) == IF n < 10 THEN DigitChar(n) ELSE NatStr(n \div 10) \o DigitChar(n % 10)

RECURSIVE Zeros(_)
Zeros(n) == IF n <= 0 THEN "" ELSE "0" \o Zeros(n - 1)

RECURSIVE DigitsStr(_)
DigitsStr(ds) == IF ds = <<>> THEN "" ELSE DigitChar(Head(ds)) \o DigitsStr(Tail(ds))

RECURSIVE NatLen(_)
NatLen(n) == IF n < 10 THEN 1 ELSE 1 + NatLen(n \div 10)

\* a strftime field: the number, zero-padded on the left to width w
ZeroPad(n, w) == Zeros(w - NatLen(n)) \o NatStr(n)

\* datetime.strftime("%Y-%m-%d %H:%M:%S") of the clock value t
StrfTime(t) ==
    ZeroPad(t.year, 4) \o "-" \o ZeroPad(t.month, 2) \o "-" \o ZeroPad(t.day, 2) \o " "
    \o ZeroPad(t.sec \div 3600, 2) \o ":" \o ZeroPad((t.sec % 3600) \div 60, 2)
    \o ":" \o ZeroPad(t.sec % 60, 2)

get_current_timestamp == StrfTime(now)

\* FloatStr, always in exponent notation
FloatStr_AlwaysExp(v) ==
    LET n == Len(v.digits)
        mag == IF v.exp < 0 THEN 0 - v.exp ELSE v.exp
    IN  (IF v.neg THEN "-" ELSE "") \o DigitChar(v.digits[1])
        \o (IF n > 1 THEN "." \o DigitsStr(SubSeq(v.digits, 2, n)) ELSE "")
        \o "e" \o (IF v.exp < 0 THEN "-" ELSE "+") \o ZeroPad(mag, 2)

\* A float is its shortest round-trip decimal digits d1 d2 .. dn and the decimal
\* exponent e of d1.d2..dn * 10^e.  FloatStr is str(float), which f"{pressure}"
\* applies: the digits in positional notation when -4 <= e < 16 and in
\* exponent notation, with an exponent of at least two digits, otherwise.
FloatStr(v) ==
    LET n == Len(v.digits)
        decpt == v.exp + 1
        sign == IF v.neg THEN "-" ELSE ""
        mag == IF v.exp < 0 THEN 0 - v.exp ELSE v.exp
    IN  IF decpt <= -4 \/ decpt > 16
        THEN sign \o DigitChar(v.digits[1])
             \o (IF n > 1 THEN "." \o DigitsStr(SubSeq(v.digits, 2, n)) ELSE "")
             \o "e" \o (IF v.exp < 0 THEN "-" ELSE "+") \o ZeroPad(mag, 2)
        ELSE IF decpt <= 0
        THEN sign \o "0." \o Zeros(0 - decpt) \o DigitsStr(v.digits)
        ELSE IF decpt >= n
        THEN sign \o DigitsStr(v.digits) \o Zeros(decpt - n) \o ".0"
        ELSE sign \o DigitsStr(SubSeq(v.digits, 1, decpt)) \o "."
             \o DigitsStr(SubSeq(v.digits, decpt + 1, n))

\* the line log_data builds, without and with its terminator (lines 106, 108)
LogLine(ts, p) == ts \o ", " \o FloatStr(p) \o " mbar"
LogEntry(ts, p) == LogLine(ts, p) \o "\n"

-----------------------------------------------------------------------------
(* The environment *)

\* 1.23e-3, 5.6e-7 and 1013.25
F_1_23eM3 == [neg |-> FALSE, digits |-> <<1, 2, 3>>, exp |-> -3]
F_5_6eM7 == [neg |-> FALSE, digits |-> <<5, 6>>, exp |-> -7]
F_1013_25 == [neg |-> FALSE, digits |-> <<1, 0, 1, 3, 2, 5>>, exp |-> 3]
Pressures == {F_1_23eM3, F_5_6eM7, F_1013_25}

\* the clock when the program starts: 09:59:50 and 23:59:55 on 2025-02-18
T_09_59_50 == [year |-> 2025, month |-> 2, day |-> 18, sec |-> 35990]
T_23_59_55 == [year |-> 2025, month |-> 2, day |-> 18, sec |-> 86395]
T_10_00_00 == [year |-> 2025, month |-> 2, day |-> 18, sec |-> 36000]
StartClocks == {T_09_59_50, T_23_59_55}

\* the clock n seconds later (within the month)
Later(t, n) ==
    IF t.sec + n >= 86400
    THEN [t EXCEPT !.day = t.day + 1, !.sec = t.sec + n - 86400]
    ELSE [t EXCEPT !.sec = t.sec + n]

\* the log file before the run: absent, empty, or holding an earlier run's line
OldLine == "2025-02-17 08:00:00, 0.5 mbar\n"
OldFiles == {<<>>, <<OldLine>>}

\* the messages of the exceptions the library and the file system raise
ConnectErrors == {"timed out"}
ReadErrors == {"BadNodeIdUnknown: " \o PRESSURE_NODE_ID}
OpenErrors == {"[Errno 13] Permission denied: '" \o LOG_FILE \o "'"}
WriteErrors == {"[Errno 28] No space left on device"}

LoopPcs == {"loop", "reading", "log", "logging", "sleep"}

\* the driver's messages (143, 147)
MsgUserStopped == "\nUser stopped the script. Exiting..."
MsgDisconnected == "Disconnected from OPC UA server."

-----------------------------------------------------------------------------
(* The driver *)

BrowseIdle ==
    /\ bpc = "idle"
    /\ tree = <<>>
    /\ failAt = 0
    /\ calls = 0
    /\ oi = 0
    /\ ci = 0
    /\ bout = <<>>

DriverInit ==
    /\ pc = "start"
    /\ client = "None"
    /\ pressure = NoneVal
    /\ timestamp = ""
    /\ fileExists \in BOOLEAN
    /\ file \in (IF fileExists THEN OldFiles ELSE {<<>>})
    /\ console = <<>>
    /\ now \in StartClocks
    /\ exc = "none"
    /\ raisedAt = "none"
    /\ exit = "running"
    /\ file0 = file
    /\ fileExists0 = fileExists
    /\ nConnect = 0
    /\ nReads = 0
    /\ nReadOk = 0
    /\ nLogCalls = 0
    /\ nAppends = 0
    /\ nSleeps = 0
    /\ nDisconnect = 0
    /\ logsInTick = 0
    /\ sleepsSince = 0
    /\ failStreak = 0
    /\ streakLogged = 0
    /\ dropped = {}
    /\ lastEntry = NoneVal

Init == DriverInit /\ BrowseIdle

\* connect_to_server succeeds (lines 36-40) and the driver enters the loop (125, 131)
ConnectOk ==
    /\ pc = "start"
    /\ nConnect' = nConnect + 1
    /\ client' = "open"
    /\ console' = Append(console, "Connected to OPC UA server at " \o SERVER_URL)
    /\ pc' = "loop"
    /\ UNCHANGED <<pressure, timestamp, fileExists, file, now, exc, raisedAt, exit,
                   file0, fileExists0, nReads, nReadOk, nLogCalls, nAppends, nSleeps,
                   nDisconnect, logsInTick, sleepsSince, failStreak, streakLogged,
                   dropped, lastEntry>>
    /\ UNCHANGED bvars

\* ConnectFail, with the driver not checking for None and entering the loop
ConnectFail_NoExit ==
    /\ pc = "start"
    /\ \E e \in ConnectErrors :
         console' = Append(console, "Error connecting to OPC UA server: " \o e)
    /\ nConnect' = nConnect + 1
    /\ client' = "None"
    /\ pc' = "loop"
    /\ UNCHANGED <<pressure, timestamp, fileExists, file, now, exc, raisedAt, exit,
                   file0, fileExists0, nReads, nReadOk, nLogCalls, nAppends, nSleeps,
                   nDisconnect, logsInTick, sleepsSince, failStreak, streakLogged,
                   dropped, lastEntry>>
    /\ UNCHANGED bvars

\* client.connect raises: connect_to_server returns None (41-43), the driver exits (125-126)
ConnectFail ==
    /\ pc = "start"
    /\ \E e \in ConnectErrors :
         console' = Append(console, "Error connecting to OPC UA server: " \o e)
    /\ nConnect' = nConnect + 1
    /\ client' = "None"
    /\ pc' = "done"
    /\ exit' = "exit"
    /\ UNCHANGED <<pressure, timestamp, fileExists, file, now, exc, raisedAt,
                   file0, fileExists0, nReads, nReadOk, nLogCalls, nAppends, nSleeps,
                   nDisconnect, logsInTick, sleepsSince, failStreak, streakLogged,
                   dropped, lastEntry>>
    /\ UNCHANGED bvars

\* the driver calls read_pressure (134): the client's calls (80-81) are in progress
ReadStart ==
    /\ pc = "loop"
    /\ nReads < MaxTicks
    /\ nReads' = nReads + 1
    /\ logsInTick' = 0
    /\ sleepsSince' = 0
    /\ pc' = "reading"
    /\ UNCHANGED <<client, pressure, timestamp, fileExists, file, console, now, exc,
                   raisedAt, exit, file0, fileExists0, nConnect, nReadOk, nLogCalls,
                   nAppends, nSleeps, nDisconnect, failStreak, streakLogged, dropped,
                   lastEntry>>
    /\ UNCHANGED bvars

\* get_value returns a value (81): pressure is not None, the timestamp is taken (135-136)
ReadOk ==
    /\ pc = "reading"
    /\ \E v \in Pressures : pressure' = Some(v)
    /\ timestamp' = get_current_timestamp
    /\ nReadOk' = nReadOk + 1
    /\ pc' = "log"
    /\ UNCHANGED <<client, fileExists, file, console, now, exc, raisedAt, exit, file0,
                   fileExists0, nConnect, nReads, nLogCalls, nAppends, nSleeps,
                   nDisconnect, logsInTick, sleepsSince, failStreak, streakLogged,
                   dropped, lastEntry>>
    /\ UNCHANGED bvars

\* ReadFail, with the driver leaving the loop on a failed read
ReadFail_Breaks ==
    /\ pc = "reading"
    /\ \E e \in ReadErrors :
         console' = Append(console, "Error reading pressure data: " \o e)
    /\ pressure' = NoneVal
    /\ failStreak' = IF failStreak < MaxTicks THEN failStreak + 1 ELSE MaxTicks
    /\ pc' = "finally"
    /\ UNCHANGED <<client, timestamp, fileExists, file, now, exc, raisedAt, exit, file0,
                   fileExists0, nConnect, nReads, nReadOk, nLogCalls, nAppends, nSleeps,
                   nDisconnect, logsInTick, sleepsSince, streakLogged, dropped,
                   lastEntry>>
    /\ UNCHANGED bvars

\* ReadFail, with the driver going back to the top of the loop without sleeping
ReadFail_SkipsSleep ==
    /\ pc = "reading"
    /\ \E e \in ReadErrors :
         console' = Append(console, "Error reading pressure data: " \o e)
    /\ pressure' = NoneVal
    /\ failStreak' = IF failStreak < MaxTicks THEN failStreak + 1 ELSE MaxTicks
    /\ pc' = "loop"
    /\ UNCHANGED <<client, timestamp, fileExists, file, now, exc, raisedAt, exit, file0,
                   fileExists0, nConnect, nReads, nReadOk, nLogCalls, nAppends, nSleeps,
                   nDisconnect, logsInTick, sleepsSince, streakLogged, dropped,
                   lastEntry>>
    /\ UNCHANGED bvars

\* get_node or get_value raises: read_pressure prints and returns None (82-84),
\* the driver skips the log step (135)
ReadFail ==
    /\ pc = "reading"
    /\ \E e \in ReadErrors :
         console' = Append(console, "Error reading pressure data: " \o e)
    /\ pressure' = NoneVal
    /\ failStreak' = IF failStreak < MaxTicks THEN failStreak + 1 ELSE MaxTicks
    /\ pc' = "sleep"
    /\ UNCHANGED <<client, timestamp, fileExists, file, now, exc, raisedAt, exit, file0,
                   fileExists0, nConnect, nReads, nReadOk, nLogCalls, nAppends, nSleeps,
                   nDisconnect, logsInTick, sleepsSince, streakLogged, dropped,
                   lastEntry>>
    /\ UNCHANGED bvars

\* get_value returns None (81): nothing is printed, the driver skips the log step (135)
ReadNone ==
    /\ pc = "reading"
    /\ pressure' = NoneVal
    /\ failStreak' = IF failStreak < MaxTicks THEN failStreak + 1 ELSE MaxTicks
    /\ pc' = "sleep"
    /\ UNCHANGED <<client, timestamp, fileExists, file, console, now, exc, raisedAt,
                   exit, file0, fileExists0, nConnect, nReads, nReadOk, nLogCalls,
                   nAppends, nSleeps, nDisconnect, logsInTick, sleepsSince,
                   streakLogged, dropped, lastEntry>>
    /\ UNCHANGED bvars

\* log_data is called (137) and open(log_file, "a") succeeds (105), creating the file
LogOpenOk ==
    /\ pc = "log"
    /\ nLogCalls' = nLogCalls + 1
    /\ logsInTick' = logsInTick + 1
    /\ fileExists' = TRUE
    /\ pc' = "logging"
    /\ UNCHANGED <<client, pressure, timestamp, file, console, now, exc, raisedAt, exit,
                   file0, fileExists0, nConnect, nReads, nReadOk, nAppends, nSleeps,
                   nDisconnect, sleepsSince, failStreak, streakLogged, dropped,
                   lastEntry>>
    /\ UNCHANGED bvars

\* log_data is called (137) and open raises: the handler prints, log_data returns (109-110)
LogOpenFail ==
    /\ pc = "log"
    /\ nLogCalls' = nLogCalls + 1
    /\ logsInTick' = logsInTick + 1
    /\ \E e \in OpenErrors :
         console' = Append(console, "Error writing to log file: " \o e)
    /\ dropped' = dropped \cup {LogEntry(timestamp, pressure[1])}
    /\ failStreak' = 0
    /\ pc' = "sleep"
    /\ UNCHANGED <<client, pressure, timestamp, fileExists, file, now, exc, raisedAt,
                   exit, file0, fileExists0, nConnect, nReads, nReadOk, nAppends,
                   nSleeps, nDisconnect, sleepsSince, streakLogged, lastEntry>>
    /\ UNCHANGED bvars

\* LogWriteOk, with the file opened in mode "w": the earlier lines are lost
LogWriteOk_Truncates ==
    /\ pc = "logging"
    /\ file' = <<LogEntry(timestamp, pressure[1])>>
    /\ console' = Append(console, "Logged: " \o LogLine(timestamp, pressure[1]))
    /\ nAppends' = nAppends + 1
    /\ lastEntry' = Some([clock |-> now, value |-> pressure[1]])
    /\ streakLogged' = IF streakLogged < failStreak THEN failStreak ELSE streakLogged
    /\ failStreak' = 0
    /\ pc' = "sleep"
    /\ UNCHANGED <<client, pressure, timestamp, fileExists, now, exc, raisedAt, exit,
                   file0, fileExists0, nConnect, nReads, nReadOk, nLogCalls, nSleeps,
                   nDisconnect, logsInTick, sleepsSince, dropped>>
    /\ UNCHANGED bvars

\* the line is written and the file closed (106-107), the line is printed (108)
LogWriteOk ==
    /\ pc = "logging"
    /\ file' = Append(file, LogEntry(timestamp, pressure[1]))
    /\ console' = Append(console, "Logged: " \o LogLine(timestamp, pressure[1]))
    /\ nAppends' = nAppends + 1
    /\ lastEntry' = Some([clock |-> now, value |-> pressure[1]])
    /\ streakLogged' = IF streakLogged < failStreak THEN failStreak ELSE streakLogged
    /\ failStreak' = 0
    /\ pc' = "sleep"
    /\ UNCHANGED <<client, pressure, timestamp, fileExists, now, exc, raisedAt, exit,
                   file0, fileExists0, nConnect, nReads, nReadOk, nLogCalls, nSleeps,
                   nDisconnect, logsInTick, sleepsSince, dropped>>
    /\ UNCHANGED bvars

\* LogWriteFail, with log_data not catching the failure: it leaves the loop
LogWriteFail_Propagates ==
    /\ pc = "logging"
    /\ dropped' = dropped \cup {LogEntry(timestamp, pressure[1])}
    /\ failStreak' = 0
    /\ exc' = "Exception"
    /\ raisedAt' = pc
    /\ pc' = "finally"
    /\ UNCHANGED <<client, pressure, timestamp, fileExists, file, console, now,
                   exit, file0, fileExists0, nConnect, nReads, nReadOk, nLogCalls,
                   nAppends, nSleeps, nDisconnect, logsInTick, sleepsSince,
                   streakLogged, lastEntry>>
    /\ UNCHANGED bvars

\* the write raises: nothing reaches the file, the handler prints, log_data returns (109-110)
LogWriteFail ==
    /\ pc = "logging"
    /\ \E e \in WriteErrors :
         console' = Append(console, "Error writing to log file: " \o e)
    /\ dropped' = dropped \cup {LogEntry(timestamp, pressure[1])}
    /\ failStreak' = 0
    /\ pc' = "sleep"
    /\ UNCHANGED <<client, pressure, timestamp, fileExists, file, now, exc, raisedAt,
                   exit, file0, fileExists0, nConnect, nReads, nReadOk, nLogCalls,
                   nAppends, nSleeps, nDisconnect, logsInTick, sleepsSince,
                   streakLogged, lastEntry>>
    /\ UNCHANGED bvars

\* time.sleep(LOG_INTERVAL) returns (140) and the loop starts over (132)
Sleep ==
    /\ pc = "sleep"
    /\ now' = Later(now, LOG_INTERVAL)
    /\ nSleeps' = nSleeps + 1
    /\ sleepsSince' = sleepsSince + 1
    /\ pc' = "loop"
    /\ UNCHANGED <<client, pressure, timestamp, fileExists, file, console, exc, raisedAt,
                   exit, file0, fileExists0, nConnect, nReads, nReadOk, nLogCalls,
                   nAppends, nDisconnect, logsInTick, failStreak, streakLogged,
                   dropped, lastEntry>>
    /\ UNCHANGED bvars

\* Interrupt, with a handler that also disconnects before the finally clause does
Interrupt_Disconnects ==
    /\ pc \in LoopPcs
    /\ exc' = "KeyboardInterrupt"
    /\ raisedAt' = pc
    /\ console' = Append(console, MsgUserStopped)
    /\ nDisconnect' = nDisconnect + 1
    /\ pc' = "finally"
    /\ UNCHANGED <<client, pressure, timestamp, fileExists, file, now, exit, file0,
                   fileExists0, nConnect, nReads, nReadOk, nLogCalls, nAppends, nSleeps,
                   logsInTick, sleepsSince, failStreak, streakLogged, dropped,
                   lastEntry>>
    /\ UNCHANGED bvars

\* Interrupt, with read_pressure swallowing what is raised during its calls, so
\* that an interrupt during the read never reaches the driver's handler
Interrupt_DefaultUnwind ==
    /\ pc \in LoopPcs
    /\ exc' = "KeyboardInterrupt"
    /\ raisedAt' = pc
    /\ console' = IF pc = "reading" THEN console ELSE Append(console, MsgUserStopped)
    /\ pc' = "finally"
    /\ UNCHANGED <<client, pressure, timestamp, fileExists, file, now, exit, file0,
                   fileExists0, nConnect, nReads, nReadOk, nLogCalls, nAppends, nSleeps,
                   nDisconnect, logsInTick, sleepsSince, failStreak, streakLogged,
                   dropped, lastEntry>>
    /\ UNCHANGED bvars

\* KeyboardInterrupt is raised inside the try block.  The handlers of read_pressure
\* and log_data catch Exception, which KeyboardInterrupt is not, so it reaches the
\* driver's handler wherever it was raised (142-143); an open file is closed by
\* its with block without a line written.
Interrupt ==
    /\ pc \in LoopPcs
    /\ exc' = "KeyboardInterrupt"
    /\ raisedAt' = pc
    /\ console' = Append(console, MsgUserStopped)
    /\ pc' = "finally"
    /\ UNCHANGED <<client, pressure, timestamp, fileExists, file, now, exit, file0,
                   fileExists0, nConnect, nReads, nReadOk, nLogCalls, nAppends, nSleeps,
                   nDisconnect, logsInTick, sleepsSince, failStreak, streakLogged,
                   dropped, lastEntry>>
    /\ UNCHANGED bvars

\* an exception other than KeyboardInterrupt leaves the try block (one raised by a
\* handler's own print, SystemExit): no except clause of the driver matches it (142)
Escape ==
    /\ pc \in LoopPcs
    /\ exc' = "Exception"
    /\ raisedAt' = pc
    /\ pc' = "finally"
    /\ UNCHANGED <<client, pressure, timestamp, fileExists, file, console, now, exit,
                   file0, fileExists0, nConnect, nReads, nReadOk, nLogCalls, nAppends,
                   nSleeps, nDisconnect, logsInTick, sleepsSince, failStreak,
                   streakLogged, dropped, lastEntry>>
    /\ UNCHANGED bvars

\* the finally clause: client.disconnect returns and the confirmation is printed
\* (146-147); an exception the driver did not handle is then raised again
DisconnectOk ==
    /\ pc = "finally"
    /\ nDisconnect' = nDisconnect + 1
    /\ client' = "closed"
    /\ console' = Append(console, MsgDisconnected)
    /\ exit' = IF exc = "KeyboardInterrupt" THEN "clean" ELSE "uncaught"
    /\ pc' = "done"
    /\ UNCHANGED <<pressure, timestamp, fileExists, file, now, exc, raisedAt, file0,
                   fileExists0, nConnect, nReads, nReadOk, nLogCalls, nAppends, nSleeps,
                   logsInTick, sleepsSince, failStreak, streakLogged, dropped,
                   lastEntry>>
    /\ UNCHANGED bvars

\* the finally clause: client.disconnect raises (146), line 147 is not reached
DisconnectRaise ==
    /\ pc = "finally"
    /\ nDisconnect' = nDisconnect + 1
    /\ client' = "closed"
    /\ exit' = "uncaught"
    /\ pc' = "done"
    /\ UNCHANGED <<pressure, timestamp, fileExists, file, console, now, exc, raisedAt, file0,
                   fileExists0, nConnect, nReads, nReadOk, nLogCalls, nAppends, nSleeps,
                   logsInTick, sleepsSince, failStreak, streakLogged, dropped,
                   lastEntry>>
    /\ UNCHANGED bvars

Next ==
    \/ ConnectOk
    \/ ConnectFail
    \/ ReadStart
    \/ ReadOk
    \/ ReadFail
    \/ ReadNone
    \/ LogOpenOk
    \/ LogOpenFail
    \/ LogWriteOk
    \/ LogWriteFail
    \/ Sleep
    \/ Interrupt
    \/ Escape
    \/ DisconnectOk
    \/ DisconnectRaise

Spec == Init /\ [][Next]_vars

-----------------------------------------------------------------------------
(* browse_nodes, called on a connected client (line 129, when uncommented) *)

\* str(node) of the library's Node
NodeStr(id) == "Node(" \o id \o ")"

RootId == "i=84"
ObjectsId == "i=85"

ChildNode(i, j) ==
    [id |-> "ns=1;s=G" \o NatStr(i) \o "_" \o NatStr(j),
     name |-> "QualifiedName(1:G" \o NatStr(i) \o "_" \o NatStr(j) \o ")"]

ObjNode(i, k) ==
    [id |-> "ns=1;s=G" \o NatStr(i),
     name |-> "QualifiedName(1:G" \o NatStr(i) \o ")",
     children |-> [j \in 1..k |-> ChildNode(i, j)]]

\* the address spaces browsed: up to MaxChildren objects of up to MaxChildren children
Trees ==
    UNION { { [i \in 1..n |-> ObjNode(i, ks[i])] : ks \in [1..n -> 0..MaxChildren] }
            : n \in 0..MaxChildren }

\* the most client calls one browse makes
MaxCalls == 3 + MaxChildren * (2 + MaxChildren)

BrowseErrors == {"BadSessionIdInvalid"}

\* a printed line: its text, and the node identities it shows
Printed(k, t, ids) == [kind |-> k, text |-> t, shows |-> ids]

BrowseInit ==
    /\ bpc = "root"
    /\ tree \in Trees
    /\ failAt \in 0..MaxCalls
    /\ calls = 0
    /\ oi = 0
    /\ ci = 0
    /\ bout = <<>>

\* the driver after connect_to_server returned a client (124-126)
DriverConnected ==
    /\ pc = "browse"
    /\ client = "open"
    /\ pressure = NoneVal
    /\ timestamp = ""
    /\ fileExists = FALSE
    /\ file = <<>>
    /\ console = <<"Connected to OPC UA server at " \o SERVER_URL>>
    /\ now = T_09_59_50
    /\ exc = "none"
    /\ raisedAt = "none"
    /\ exit = "running"
    /\ file0 = <<>>
    /\ fileExists0 = FALSE
    /\ nConnect = 1
    /\ nReads = 0
    /\ nReadOk = 0
    /\ nLogCalls = 0
    /\ nAppends = 0
    /\ nSleeps = 0
    /\ nDisconnect = 0
    /\ logsInTick = 0
    /\ sleepsSince = 0
    /\ failStreak = 0
    /\ streakLogged = 0
    /\ dropped = {}
    /\ lastEntry = NoneVal

InitBrowse == DriverConnected /\ BrowseInit

\* the next client call returns
CallReturns == calls + 1 # failAt

\* the obj after the current one, or the end of the outer loop (59)
NextObj ==
    IF oi < Len(tree)
    THEN /\ oi' = oi + 1
         /\ ci' = 0
         /\ bpc' = "obj"
    ELSE /\ bpc' = "done"
         /\ UNCHANGED <<oi, ci>>

\* get_root_node returns and the root is printed (53-54)
BrowseRoot ==
    /\ bpc = "root"
    /\ CallReturns
    /\ calls' = calls + 1
    /\ bout' = Append(bout, Printed("root", "Root Node: " \o NodeStr(RootId),
                                    <<NodeStr(RootId)>>))
    /\ bpc' = "objects"
    /\ UNCHANGED <<tree, failAt, oi, ci>>
    /\ UNCHANGED dvars

\* BrowseObjects, printing the objects node the way line 54 prints the root
BrowseObjects_PrintsIdentity ==
    /\ bpc = "objects"
    /\ CallReturns
    /\ calls' = calls + 1
    /\ bout' = Append(bout, Printed("objects", "Objects Node: " \o NodeStr(ObjectsId),
                                    <<NodeStr(ObjectsId)>>))
    /\ bpc' = "children"
    /\ UNCHANGED <<tree, failAt, oi, ci>>
    /\ UNCHANGED dvars

\* get_objects_node returns and the heading is printed (56-57)
BrowseObjects ==
    /\ bpc = "objects"
    /\ CallReturns
    /\ calls' = calls + 1
    /\ bout' = Append(bout, Printed("heading", "Browsing Objects...", <<>>))
    /\ bpc' = "children"
    /\ UNCHANGED <<tree, failAt, oi, ci>>
    /\ UNCHANGED dvars

\* objects.get_children returns and the outer loop starts (59)
BrowseChildren ==
    /\ bpc = "children"
    /\ CallReturns
    /\ calls' = calls + 1
    /\ IF tree = <<>>
       THEN /\ bpc' = "done"
            /\ UNCHANGED <<oi, ci>>
       ELSE /\ oi' = 1
            /\ ci' = 0
            /\ bpc' = "obj"
    /\ UNCHANGED <<tree, failAt, bout>>
    /\ UNCHANGED dvars

\* obj.get_browse_name returns and obj is printed (60)
BrowseObj ==
    /\ bpc = "obj"
    /\ CallReturns
    /\ calls' = calls + 1
    /\ bout' = Append(bout,
                 Printed("node",
                         "Node: " \o NodeStr(tree[oi].id) \o ", Browse Name: "
                         \o tree[oi].name,
                         <<NodeStr(tree[oi].id)>>))
    /\ bpc' = "objchildren"
    /\ UNCHANGED <<tree, failAt, oi, ci>>
    /\ UNCHANGED dvars

\* obj.get_children returns and the inner loop starts (62)
BrowseObjChildren ==
    /\ bpc = "objchildren"
    /\ CallReturns
    /\ calls' = calls + 1
    /\ IF tree[oi].children = <<>>
       THEN NextObj
       ELSE /\ ci' = 1
            /\ bpc' = "child"
            /\ UNCHANGED oi
    /\ UNCHANGED <<tree, failAt, bout>>
    /\ UNCHANGED dvars

\* child.get_browse_name returns and the child is printed, nested (63); the arrow
\* glyph of the source's prefix is written -> here
BrowseChild ==
    /\ bpc = "child"
    /\ CallReturns
    /\ calls' = calls + 1
    /\ bout' = Append(bout,
                 Printed("child",
                         "   -> Child Node: " \o NodeStr(tree[oi].children[ci].id)
                         \o ", Browse Name: " \o tree[oi].children[ci].name,
                         <<NodeStr(tree[oi].children[ci].id)>>))
    /\ IF ci < Len(tree[oi].children)
       THEN /\ ci' = ci + 1
            /\ UNCHANGED <<oi, bpc>>
       ELSE NextObj
    /\ UNCHANGED <<tree, failAt>>
    /\ UNCHANGED dvars

\* the client call in progress raises: the handler prints, browse_nodes returns (65-66)
BrowseRaise ==
    /\ bpc \in {"root", "objects", "children", "obj", "objchildren", "child"}
    /\ ~CallReturns
    /\ calls' = calls + 1
    /\ \E e \in BrowseErrors :
         bout' = Append(bout, Printed("error", "Error browsing nodes: " \o e, <<>>))
    /\ bpc' = "done"
    /\ UNCHANGED <<tree, failAt, oi, ci>>
    /\ UNCHANGED dvars

NextBrowse ==
    \/ BrowseRoot
    \/ BrowseObjects
    \/ BrowseChildren
    \/ BrowseObj
    \/ BrowseObjChildren
    \/ BrowseChild
    \/ BrowseRaise

SpecBrowse == InitBrowse /\ [][NextBrowse]_vars

-----------------------------------------------------------------------------
(* Properties *)

\* how many times msg was printed
Count(msg) == Cardinality({i \in DOMAIN console : console[i] = msg})

\* a step in which read_pressure returns None to the driver
ReadFailedStep == pc = "reading" /\ pc' # "reading" /\ nReadOk' = nReadOk /\ exc' = exc

\* a step in which log_data fails to write its line
LogFailedStep == pc \in {"log", "logging"} /\ dropped' # dropped

\* C1: once connect_to_server has succeeded, client.disconnect is called exactly
\* once when the loop is left, whichever exception leaves it and wherever it is
\* raised; it is never called while the loop runs, never twice, and no read is
\* issued after it.
C1_ReleasedExactlyOnce ==
    /\ [](/\ nDisconnect <= 1
          /\ (pc = "done" /\ exit # "exit" => nDisconnect = 1 /\ client = "closed")
          /\ (pc # "done" => nDisconnect = 0)
          /\ (pc = "finally" => ENABLED (DisconnectOk \/ DisconnectRaise)))
    /\ [][nDisconnect >= 1 => nReads' = nReads]_vars

\* C1 witness: an interrupt during the log step, after two reads, and the release
C1_Witness ==
    /\ pc = "done"
    /\ exc = "KeyboardInterrupt"
    /\ raisedAt = "logging"
    /\ nReads = 2
    /\ nDisconnect = 1

\* C2 as stated: after N ticks whose read succeeded the file holds N lines more
\* than before the run.
C2_Original == pc = "loop" => Len(file) = Len(file0) + nReadOk

\* C2 amended: the file grows by exactly one line for every tick whose read
\* succeeded and whose write did not fail, so its line count is the lines that
\* existed before the run plus the number of such ticks (at most the number of
\* successful reads); it is only ever appended to.
C2_AppendOnly ==
    /\ [](/\ Len(file) = Len(file0) + nAppends
          /\ SubSeq(file, 1, Len(file0)) = file0
          /\ nAppends <= nReadOk
          /\ (pc \in {"sleep", "loop"} => nReadOk = nAppends + Cardinality(dropped)))
    /\ [][\/ file' = file
          \/ /\ nAppends' = nAppends + 1
             /\ pressure # NoneVal
             /\ file' = Append(file, LogEntry(StrfTime(now), pressure[1]))]_vars

\* C2 witness: two lines appended to a file that held one, and one write failed
C2_Witness ==
    /\ pc = "loop"
    /\ nAppends = 2
    /\ dropped # {}
    /\ file0 = <<OldLine>>

\* C3: a failed read appends nothing, does not call log_data, and leaves the
\* driver sleeping in the loop with its session as it was; the next read is
\* issued however many reads failed before, and nothing reconnects.
C3_FailedReadSkipsAndContinues ==
    /\ [][ReadFailedStep =>
            /\ pressure' = NoneVal
            /\ file' = file
            /\ fileExists' = fileExists
            /\ nLogCalls' = nLogCalls
            /\ pc' = "sleep"
            /\ exit' = "running"
            /\ client' = "open"
            /\ nConnect' = nConnect]_vars
    /\ [](/\ nConnect <= 1
          /\ (pc = "sleep" => ENABLED Sleep)
          /\ (pc = "loop" /\ nReads < MaxTicks => ENABLED ReadStart))

\* C3 witness: a read is logged after two consecutive failed reads
C3_Witness == streakLogged = 2 /\ nAppends = 1 /\ pc = "sleep"

\* C4: when the connection attempt fails the process ends at once: no read, no
\* call of log_data, no disconnect, and the log file is as it was before the run.
C4_ConnectFailureEndsBeforeLoop ==
    /\ (client = "None" => pc \in {"start", "done"})
    /\ (pc = "done" /\ exit = "exit" =>
          /\ client = "None"
          /\ nReads = 0
          /\ nLogCalls = 0
          /\ nAppends = 0
          /\ nDisconnect = 0
          /\ file = file0
          /\ fileExists = fileExists0
          /\ ~ENABLED Next)

\* C4 witness: the connection failed with an earlier run's line in the file
C4_Witness == pc = "done" /\ exit = "exit" /\ file0 = <<OldLine>>

\* C5: after an interrupt that follows at least one successful write, the file
\* holds the earlier lines unchanged and the disconnect confirmation was printed
\* exactly once.
C5_Original ==
    (pc = "done" /\ exc = "KeyboardInterrupt" /\ nAppends >= 1) =>
        /\ SubSeq(file, 1, Len(file0)) = file0
        /\ Len(file) = Len(file0) + nAppends
        /\ Count(MsgDisconnected) = 1

\* C6: a write failure drops the reading: the failing step writes nothing and
\* leaves the driver sleeping in the loop with no exception raised; whatever is
\* appended later is the line of the tick that appends it, and a dropped line
\* never reaches the file.
C6_FailedWriteDropsReading ==
    /\ [][LogFailedStep =>
            /\ file' = file
            /\ pc' = "sleep"
            /\ exc' = "none"
            /\ exit' = "running"]_vars
    /\ [][file' # file =>
            /\ pressure # NoneVal
            /\ file' = Append(file, LogEntry(StrfTime(now), pressure[1]))]_vars
    /\ [](\A i \in DOMAIN file : file[i] \notin dropped)

\* C6 witness: the reading of 09:59:50 was dropped, the one of 10:00:00 is written
C6_Witness ==
    /\ pc = "sleep"
    /\ nReads = 2
    /\ LogEntry(StrfTime(T_09_59_50), F_1_23eM3) \in dropped
    /\ file # <<>>
    /\ file[Len(file)] = LogEntry(StrfTime(T_10_00_00), F_1013_25)

\* C7 as stated: an interrupt raised during the read does not take the driver's
\* explicit interrupt path.
C7_Original ==
    (exc = "KeyboardInterrupt" /\ raisedAt = "reading") => Count(MsgUserStopped) = 0

\* C7 amended: an interrupt raised anywhere in the loop, during the read
\* included, takes the driver's explicit interrupt path (the user-stopped
\* message is printed once); any other exception leaving the loop prints no
\* such message; in every case the release in the finally clause runs.
C7_InterruptAlwaysHandledExplicitly ==
    /\ (exc = "KeyboardInterrupt" => Count(MsgUserStopped) = 1)
    /\ (exc # "KeyboardInterrupt" => Count(MsgUserStopped) = 0)
    /\ (exc # "none" => pc \in {"finally", "done"})
    /\ (pc = "done" /\ exc # "none" => nDisconnect = 1)

\* C7 witness: an interrupt during the read, handled, and the session released
C7_Witness ==
    /\ pc = "done"
    /\ exc = "KeyboardInterrupt"
    /\ raisedAt = "reading"
    /\ Count(MsgUserStopped) = 1
    /\ nDisconnect = 1

\* a browse that ended with no call raising, on an objects node without children
BrowseCleanEmpty == bpc = "done" /\ tree = <<>> /\ (failAt = 0 \/ failAt > calls)

\* C8 as stated: browsing an objects node without children prints the identity
\* of the objects node.
C8_Original ==
    BrowseCleanEmpty =>
        \E i \in DOMAIN bout : \E j \in DOMAIN bout[i].shows :
            bout[i].shows[j] = NodeStr(ObjectsId)

\* C8 amended: browsing an objects node without children prints the root's
\* identity and the fixed heading "Browsing Objects...", and nothing else: not
\* the identity of the objects node, and no error diagnostic.
C8_EmptyBrowse ==
    BrowseCleanEmpty =>
        bout = << [kind |-> "root", text |-> "Root Node: Node(i=84)",
                   shows |-> <<"Node(i=84)">>],
                  [kind |-> "heading", text |-> "Browsing Objects...",
                   shows |-> <<>>] >>

\* C8 witness: a finished browse of an objects node without children
C8_Witness == BrowseCleanEmpty /\ Len(bout) = 2 /\ calls = 3

\* C9 as stated: the value 1.23e-3 logged at 2025-02-18 10:00:00 gives the line
\* "2025-02-18 10:00:00, 1.23e-3 mbar".
C9_Original ==
    (pc = "sleep" /\ lastEntry = Some([clock |-> T_10_00_00, value |-> F_1_23eM3])) =>
        file[Len(file)] = "2025-02-18 10:00:00, 1.23e-3 mbar\n"

\* C9 amended: the line appended is the timestamp, ", ", the value as str()
\* renders it, " mbar" and one line terminator; a float is rendered positionally
\* unless its exponent is below -4 or at least 16, so 1.23e-3 logged at
\* 2025-02-18 10:00:00 gives "2025-02-18 10:00:00, 0.00123 mbar".
C9_LogLineFormat ==
    (pc = "sleep" /\ logsInTick = 1 /\ lastEntry # NoneVal /\ lastEntry[1].clock = now) =>
        LET t == lastEntry[1].clock
            v == lastEntry[1].value
            line == file[Len(file)]
        IN  /\ t = T_10_00_00 /\ v = F_1_23eM3 =>
                line = "2025-02-18 10:00:00, 0.00123 mbar\n"
            /\ t = T_10_00_00 /\ v = F_1013_25 =>
                line = "2025-02-18 10:00:00, 1013.25 mbar\n"
            /\ t = T_23_59_55 /\ v = F_5_6eM7 =>
                line = "2025-02-18 23:59:55, 5.6e-07 mbar\n"
            /\ t = Later(T_23_59_55, LOG_INTERVAL) /\ v = F_1_23eM3 =>
                line = "2025-02-19 00:00:05, 0.00123 mbar\n"
            /\ line = StrfTime(t) \o ", " \o FloatStr(v) \o " mbar" \o "\n"
            /\ console[Len(console)] =
                 "Logged: " \o StrfTime(t) \o ", " \o FloatStr(v) \o " mbar"

\* C9 witness: 1.23e-3 has just been logged at 2025-02-18 10:00:00
C9_Witness ==
    /\ pc = "sleep"
    /\ logsInTick = 1
    /\ now = T_10_00_00
    /\ lastEntry = Some([clock |-> T_10_00_00, value |-> F_1_23eM3])

\* C10: every iteration reads, then logs only if the read gave a value, then
\* sleeps, whatever the read and the write did: one sleep lies between any two
\* consecutive reads and at most one call of log_data.
C10_ReadLogSleepOrder ==
    /\ [](/\ nSleeps <= nReads
          /\ nReads <= nSleeps + 1
          /\ logsInTick <= 1
          /\ nLogCalls <= nReadOk
          /\ (pc \in {"reading", "log", "logging", "sleep"} =>
                sleepsSince = 0 /\ nReads = nSleeps + 1)
          /\ (pc = "loop" => nReads = nSleeps /\ (nReads > 0 => sleepsSince = 1))
          /\ (pc \in {"log", "logging"} => pressure # NoneVal)
          /\ (pc = "sleep" => ENABLED Sleep))
    /\ [][nReads' # nReads => (nReads = 0 \/ sleepsSince = 1)]_vars
    /\ [][nLogCalls' # nLogCalls =>
            pressure # NoneVal /\ sleepsSince = 0 /\ logsInTick = 0]_vars
    /\ [][(pc \in {"reading", "log", "logging"} /\ exc' = exc /\ pc' # pc
           /\ pc' \notin {"log", "logging"}) => pc' = "sleep"]_vars

\* C10 witness: three ticks slept through: a failed read, a failed write and a
\* logged read
C10_Witness ==
    /\ pc = "loop"
    /\ nSleeps = 3
    /\ nReadOk = 2
    /\ nAppends = 1
    /\ dropped # {}

====
